---- MODULE Spec2Model ----
(***************************************************************************)
(* Model of request-logs-service: the dual-backend persistence module      *)
(* (initDb / insertLog), the POST /log ingestion handler and process       *)
(* start-up, and the backup / retention engine (runBackup).                *)
(*                                                                         *)
(* Three specifications share the variables below:                         *)
(*   SpecStore   control flow of initDb, insertLog, the handler and start  *)
(*   SpecRecord  the data path payload -> doc -> stored row / document     *)
(*   SpecBackup  runBackup, uploadAndRetain and pruneLocal                 *)
(***************************************************************************)
EXTENDS Integers, Sequences, FiniteSets, TLC

(* ------------------------------ bounds -------------------------------- *)
\* Number of initDb / insertLog invocations followed in one behaviour.
MaxCalls == 2

\* Number of runBackup invocations followed in one behaviour.
MaxRuns == 3

\* Number of runBackup invocations followed in one behaviour of the service
\* specification and of the specification of overlapping runs (at most
\* MaxRuns).
MaxServiceRuns == 2

\* Largest retention count (BACKUP_RETENTION_DAYS) the model draws.
MaxRetention == 2

\* The seven "alter table ... add column if not exists" statements.
NumAlter == 7

VARIABLES
  \* ---- persistence.js module state and process environment
  envDriver,    \* process.env.DB_DRIVER ("" when unset)
  driver,       \* module variable `driver`
  ready,        \* module variable `ready`
  mongoClient,  \* number of MongoClient objects constructed so far
  pgPool,       \* number of pg Pool objects constructed so far
  calls,        \* the invocations of initDb / insertLog, by call id
  nextCall,     \* id the next invocation gets
  startPc,      \* position of start(): boot, awaitInit, listen, listening, crashed, exited
  written,      \* number of records the backend has accepted
  \* ---- the data path of one POST /log request
  recPc,        \* idle, received, built, stored
  payload,      \* request.body
  doc,          \* the doc the handler builds
  stored,       \* the row (postgres params) / document (mongo) handed to the backend
  \* ---- backup module: environment, file system, bucket, runs
  envEnabled,   \* process.env.BACKUP_ENABLED ("" when unset)
  s3,           \* bucket and both credentials are configured
  retention,    \* +(process.env.BACKUP_RETENTION_DAYS || 7)
  dirExists,    \* BACKUP_DIR exists
  local,        \* artifact files in BACKUP_DIR: records [id, t] (t: mtime)
  tmpDirs,      \* scratch directories tmp-mongo-... in BACKUP_DIR, by run
  remote,       \* objects under the prefix: records [id, t] (t: LastModified)
  clock,        \* source of mtime / LastModified values
  runs,         \* the invocations of runBackup, by run id
  nextRun,      \* id the next invocation gets
  hist,         \* what has happened so far, for stating the claims
  envCron,      \* process.env.BACKUP_CRON ("" when unset)
  sched         \* the call of scheduleBackups: how it ended, what it did

storeVars == <<envDriver, driver, ready, mongoClient, pgPool, calls, nextCall,
               startPc, written>>

recordVars == <<recPc, payload, doc, stored>>

backupVars == <<envEnabled, s3, retention, dirExists, local, tmpDirs, remote,
                clock, runs, nextRun, hist>>

schedVars == <<envCron, sched>>

nonStoreVars == <<recordVars, backupVars, schedVars>>

nonRecordVars == <<storeVars, backupVars, schedVars>>

vars == <<envDriver, driver, ready, mongoClient, pgPool, calls, nextCall,
          startPc, written, recPc, payload, doc, stored,
          envEnabled, s3, retention, dirExists, local, tmpDirs, remote,
          clock, runs, nextRun, hist, envCron, sched>>

(* --------------------- configuration: DB_DRIVER ----------------------- *)
\* Values of DB_DRIVER the model draws from; "" stands for an unset variable.
DriverSettings == {"", "postgres", "mongo", "MongoDB", "mongo-atlas"}

\* String.prototype.toLowerCase on the values above.
ToLowerCase(s) == IF s = "MongoDB" THEN "mongodb" ELSE s

\* process.env.DB_DRIVER || 'postgres'
DriverOrDefault(s) == IF s = "" THEN "postgres" ELSE s

\* driver === 'mongo' || driver === 'mongodb'
IsMongoDriver(d) == d \in {"mongo", "mongodb"}

(* ------------------------------ calls --------------------------------- *)
CallIds == 1..MaxCalls

NoCall == [kind |-> "none", origin |-> "none", pc |-> "unused",
           outcome |-> "none", sawReady |-> FALSE, clients |-> 0,
           boots |-> 0, alter |-> 0, resp |-> "none",
           respPending |-> FALSE, logged |-> FALSE,
           initFailed |-> FALSE, initOk |-> FALSE]

\* The process is running: start() has neither died on an unhandled
\* rejection nor called process.exit(1).
Alive == startPc \notin {"crashed", "exited"}

\* `if (ready) return; // idempotent`
ReadyGuardMissing(rdy) == FALSE

ReadyGuard(rdy) == rdy

\* What start() does once `await initDb()` settles: the await is outside the
\* try block, so a rejection ends start() (and the process) before listen.
StartAfterInitCaught(outcome) == "listen"

StartAfterInit(outcome) == IF outcome = "resolved" THEN "listen" ELSE "crashed"

\* The `.catch(err => fastify.log.error(...))` attached by the handler: the
\* reply already given is not touched when the insert settles.
ReplyAfterSettleLeaky(resp, outcome) == IF outcome = "rejected" THEN "error" ELSE resp

ReplyAfterSettle(resp, outcome) == resp

\* pc of a call after initDb has constructed its client: the first awaited
\* operation of the selected backend.
FirstAwait(d) == IF IsMongoDriver(d) THEN "connect" ELSE "pgTable"

\* initDb entered by call record r while `ready` is rdy: the synchronous part up
\* to the first await.  kind "insertLog" enters through `if (!ready) await initDb()`.
EnterCall(r, rdy, d) ==
  IF ReadyGuard(rdy)
    THEN IF r.kind = "initDb"
           THEN [r EXCEPT !.sawReady = rdy, !.pc = "done", !.outcome = "resolved"]
           ELSE [r EXCEPT !.sawReady = rdy, !.pc = "write"]
    ELSE [r EXCEPT !.sawReady = rdy, !.pc = FirstAwait(d), !.clients = 1,
                   !.boots = IF IsMongoDriver(d) THEN 0 ELSE 1]

\* A call settles: the record after its promise resolved or rejected.
Settle(r, outcome) ==
  [r EXCEPT !.pc = "done", !.outcome = outcome,
            !.resp = IF r.origin = "handler" THEN ReplyAfterSettle(r.resp, outcome) ELSE r.resp,
            !.logged = (r.origin = "handler" /\ outcome = "rejected")]

\* start() continues when the call it awaits settles.
StartOnSettle(r, outcome) ==
  IF r.origin = "start" THEN StartAfterInit(outcome) ELSE startPc

\* initDb reached `ready = true` in call c: an initDb call resolves, an
\* insertLog call goes on to issue its write.
InitDone(r) ==
  IF r.kind = "initDb"
    THEN [Settle(r, "resolved") EXCEPT !.initOk = TRUE]
    ELSE [r EXCEPT !.pc = "write", !.initOk = TRUE]

\* An awaited connect / create table / create index of initDb failed in call
\* r: nothing catches it, so initDb, and an insertLog awaiting it, reject.
InitFail(r) == [Settle(r, "rejected") EXCEPT !.initFailed = TRUE]

StoreIdle ==
  /\ ready = FALSE
  /\ mongoClient = 0
  /\ pgPool = 0
  /\ calls = [c \in CallIds |-> NoCall]
  /\ nextCall = 1
  /\ startPc = "boot"
  /\ written = 0

RecordIdle ==
  /\ recPc = "idle"
  /\ payload = "none"
  /\ doc = "none"
  /\ stored = "none"

RunIds == 1..MaxRuns

\* excessLocal, failedLocal, delLocal: the files the run's pruneLocal found in
\* excess, those whose unlink threw, those it removed; delRemote: the objects
\* the run's retention step deleted, failedRemote: a deletion of it failed.
NoRun == [pc |-> "idle", kind |-> "none", dump |-> "none", archive |-> "none",
          uploadCalled |-> FALSE, pruned |-> FALSE, pending |-> <<>>,
          localBefore |-> {}, remoteBefore |-> {},
          excessLocal |-> {}, failedLocal |-> {}, delLocal |-> {}, delRemote |-> {},
          failedRemote |-> FALSE]

NoHist == [overlapped |-> FALSE, softErrors |-> FALSE, dumpTrouble |-> FALSE,
           seeded |-> FALSE]

NoSched == [pc |-> "none", logged |-> FALSE, installed |-> FALSE]

BackupIdle ==
  /\ envEnabled = ""
  /\ s3 = FALSE
  /\ retention = 7
  /\ dirExists = FALSE
  /\ local = {}
  /\ tmpDirs = {}
  /\ remote = {}
  /\ clock = 1
  /\ runs = [r \in RunIds |-> NoRun]
  /\ nextRun = 1
  /\ hist = NoHist
  /\ envCron = ""
  /\ sched = NoSched

InitStore ==
  /\ RecordIdle
  /\ BackupIdle
  /\ StoreIdle
  /\ envDriver \in DriverSettings
  /\ driver = DriverOrDefault(envDriver)

\* A new invocation enters initDb (directly, or through insertLog).
Invoke(kind, origin) ==
  LET d  == ToLowerCase(DriverOrDefault(envDriver))
      r0 == [NoCall EXCEPT !.kind = kind, !.origin = origin]
      r1 == EnterCall(r0, ready, d)
      r  == IF origin = "handler"
              THEN [r1 EXCEPT !.resp = "success", !.respPending = (r1.outcome = "none")]
              ELSE r1
  IN /\ Alive
     /\ nextCall \in CallIds
     /\ calls' = [calls EXCEPT ![nextCall] = r]
     /\ nextCall' = nextCall + 1
     /\ driver' = IF r.clients = 1 THEN d ELSE driver
     /\ mongoClient' = IF r.clients = 1 /\ IsMongoDriver(d) THEN mongoClient + 1 ELSE mongoClient
     /\ pgPool' = IF r.clients = 1 /\ ~IsMongoDriver(d) THEN pgPool + 1 ELSE pgPool
     /\ startPc' = IF origin = "start"
                     THEN (IF r.pc = "done" THEN StartAfterInit(r.outcome) ELSE "awaitInit")
                     ELSE startPc
     /\ UNCHANGED <<envDriver, ready, written>>
     /\ UNCHANGED nonStoreVars

\* start(): `await initDb()`
start ==
  /\ startPc = "boot"
  /\ Invoke("initDb", "start")

\* A caller of the module invokes initDb().
initDb ==
  /\ Invoke("initDb", "direct")

\* A caller of the module invokes insertLog(doc).
insertLog ==
  /\ Invoke("insertLog", "direct")

\* fastify.post('/log'): builds doc, calls insertLog(doc) with a catch handler
\* attached, and returns { success: true } without awaiting.
postLog ==
  /\ startPc = "listening"
  /\ Invoke("insertLog", "handler")

\* insertLog's write settles.  Mongo returns insertOne's promise as it is; the
\* postgres query has `.catch(e => { /* swallow */ })` attached.
WriteOutcome(d, ok) ==
  IF ok THEN "resolved"
  ELSE IF IsMongoDriver(d) THEN "rejected" ELSE "resolved"

\* The operation call c awaits settles (ok: it succeeded) and the async
\* function runs on to its next await or to its end.
AwaitStep(c, ok) ==
  LET r == calls[c]
      fail == InitFail(r)
      issue(pc) == [r EXCEPT !.pc = pc, !.boots = r.boots + 1]
      nr == CASE r.pc = "connect"    -> IF ok THEN issue("mongoIndex") ELSE fail
              [] r.pc = "mongoIndex" -> IF ok THEN InitDone(r) ELSE fail
              [] r.pc = "pgTable"    -> IF ok THEN issue("pgIndex") ELSE fail
              [] r.pc = "pgIndex"    -> IF ok THEN [issue("pgAlter") EXCEPT !.alter = 1] ELSE fail
              [] r.pc = "pgAlter"    -> IF r.alter < NumAlter
                                          THEN [issue("pgAlter") EXCEPT !.alter = r.alter + 1]
                                          ELSE InitDone(r)
              [] OTHER               -> r
      nowReady == nr.initOk
  IN /\ Alive
     /\ r.pc \in {"connect", "mongoIndex", "pgTable", "pgIndex", "pgAlter"}
     /\ calls' = [calls EXCEPT ![c] = nr]
     /\ ready' = (ready \/ nowReady)
     /\ startPc' = IF nr.pc = "done" THEN StartOnSettle(r, nr.outcome) ELSE startPc
     /\ UNCHANGED <<envDriver, driver, mongoClient, pgPool, nextCall, written>>
     /\ UNCHANGED nonStoreVars

\* The insert issued by call c settles.
WriteStep(c, ok) ==
  LET r == calls[c]
  IN /\ Alive
     /\ r.pc = "write"
     /\ calls' = [calls EXCEPT ![c] = Settle(r, WriteOutcome(driver, ok))]
     /\ written' = IF ok THEN written + 1 ELSE written
     /\ UNCHANGED <<envDriver, driver, ready, mongoClient, pgPool, nextCall, startPc>>
     /\ UNCHANGED nonStoreVars

\* `await fastify.listen(...)` settles: on failure start() logs and exits.
listen(ok) ==
  /\ startPc = "listen"
  /\ startPc' = IF ok THEN "listening" ELSE "exited"
  /\ UNCHANGED <<envDriver, driver, ready, mongoClient, pgPool, calls, nextCall, written>>
  /\ UNCHANGED nonStoreVars

NextStore ==
  \/ start
  \/ initDb
  \/ insertLog
  \/ postLog
  \/ \E c \in CallIds, ok \in BOOLEAN : AwaitStep(c, ok)
  \/ \E c \in CallIds, ok \in BOOLEAN : WriteStep(c, ok)
  \/ \E ok \in BOOLEAN : listen(ok)

SpecStore == InitStore /\ [][NextStore]_vars

(* ----------------------- claims on SpecStore -------------------------- *)
Started(c) == calls[c].pc # "unused"

\* C1 (as claimed): every insertLog call completes without rejecting, on
\* either backend and whatever the storage outcome, a failing lazy
\* initialization included.
C1_InsertNeverRejects ==
  \A c \in CallIds : calls[c].kind = "insertLog" => calls[c].outcome # "rejected"

\* C2: every POST /log request is answered { success: true }; the answer is
\* given while the insert is still pending and stays the same whether the
\* insert later resolves, rejects or never settles.
C2_ReplyAlwaysSuccess ==
  \A c \in CallIds :
    calls[c].origin = "handler" =>
      /\ calls[c].resp = "success"
      /\ calls[c].respPending

\* A request whose insert rejected after the reply: the failure was logged.
C2_Witness ==
  \E c \in CallIds :
    /\ calls[c].origin = "handler"
    /\ calls[c].outcome = "rejected"
    /\ calls[c].logged

\* C8: a call of initDb (or insertLog) entered once initialization has
\* completed constructs no client and issues no bootstrap statement, and
\* such an initDb call resolves.
C8_InitDbIdempotent ==
  \A c \in CallIds :
    (Started(c) /\ calls[c].sawReady) =>
      /\ calls[c].clients = 0
      /\ calls[c].boots = 0
      /\ ~calls[c].initFailed
      /\ calls[c].kind = "initDb" => calls[c].outcome = "resolved"

\* Two initDb calls in succession: the first did the setup and resolved, the
\* second found `ready` set and returned.
C8_Witness ==
  \E c1, c2 \in CallIds :
    /\ calls[c1].kind = "initDb" /\ calls[c1].initOk /\ calls[c1].boots > 0
    /\ calls[c2].kind = "initDb" /\ calls[c2].sawReady /\ calls[c2].pc = "done"

\* C9: a failed connect / create table / create index makes the call reject
\* and does not set `ready` (ready holds only if some call completed
\* initialization); when the failing call is start()'s, start() ends
\* without listening.
C9_InitFailureFatal ==
  /\ \A c \in CallIds :
       calls[c].initFailed =>
         /\ calls[c].pc = "done"
         /\ calls[c].outcome = "rejected"
         /\ ~calls[c].initOk
         /\ calls[c].origin = "start" => startPc = "crashed"
  /\ ready => \E c \in CallIds : calls[c].initOk
  /\ startPc \in {"listen", "listening", "exited"} =>
       /\ ready
       /\ \E c \in CallIds : calls[c].origin = "start" /\ calls[c].outcome = "resolved"

\* start()'s initDb failed: the process ended, not ready, never listening.
C9_Witness ==
  \E c \in CallIds :
    /\ calls[c].origin = "start"
    /\ calls[c].initFailed
    /\ startPc = "crashed"
    /\ ~ready

\* C22 (as claimed): of the initDb / insertLog calls started before an
\* initialization has completed, only one constructs a client or pool and
\* runs the bootstrap; stated for calls none of which has failed.
C22_SetupAtMostOnce ==
  \A c1, c2 \in CallIds :
    (/\ calls[c1].clients = 1 /\ ~calls[c1].initFailed
     /\ calls[c2].clients = 1 /\ ~calls[c2].initFailed) => c1 = c2

(* ------------------- the data path of POST /log ----------------------- *)
\* JSON scalars as the handler can tell them apart: "undefined" is an absent
\* key, "null" a JSON null, "empty" the string "", "zero" the number 0,
\* "false" the boolean false, "v" any truthy value.
Scalars == {"undefined", "null", "empty", "zero", "false", "v"}

\* JavaScript truthiness of a scalar.
Truthy(x) == x \notin {"undefined", "null", "empty", "zero", "false"}

\* `x || null` on a scalar.
OrNull(x) == IF Truthy(x) THEN x ELSE "null"

\* Nested values (actor, request, response) carry a tag: "undefined", "null",
\* "str" (a truthy non-object) or "obj"; sub-fields are read only from "obj".
UndefActor == [tag |-> "undefined", id |-> "undefined"]
NullActor == [tag |-> "null", id |-> "undefined"]
UndefRequest == [tag |-> "undefined", path |-> "undefined", headers |-> "undefined", body |-> "undefined"]
NullRequest == [tag |-> "null", path |-> "undefined", headers |-> "undefined", body |-> "undefined"]
UndefResponse == [tag |-> "undefined", body |-> "undefined"]
NullResponse == [tag |-> "null", body |-> "undefined"]

TruthyTag(x) == x.tag \in {"str", "obj"}

Actors ==
  {UndefActor, NullActor, [tag |-> "str", id |-> "undefined"]}
    \cup {[tag |-> "obj", id |-> i] : i \in Scalars}

Requests ==
  {UndefRequest, NullRequest,
   [tag |-> "str", path |-> "undefined", headers |-> "undefined", body |-> "undefined"]}
    \cup {[tag |-> "obj", path |-> p, headers |-> h, body |-> b] :
             p \in {"undefined", "empty", "v"}, h \in {"undefined", "v"},
             b \in {"undefined", "zero", "v"}}

Responses ==
  {UndefResponse, NullResponse, [tag |-> "str", body |-> "undefined"]}
    \cup {[tag |-> "obj", body |-> b] : b \in Scalars}

\* A request body that is a JSON object with only flat (legacy) keys, and
\* possibly a falsy `event`.
LegacyPayloads ==
  [kind : {"object"},
   apiUrl : {"undefined", "null", "empty", "v"}, headers : {"undefined", "null", "v"},
   requestBody : Scalars, responseBody : Scalars,
   userId : {"undefined", "null", "empty", "v"},
   event : {"undefined", "empty"}, entity : {"undefined"}, entityId : {"undefined"},
   metadata : {"undefined"},
   actor : {UndefActor}, request : {UndefRequest}, response : {UndefResponse}]

\* A request body with structured keys (and possibly an explicit apiUrl).
StructuredPayloads ==
  [kind : {"object"},
   apiUrl : {"undefined", "v"}, headers : {"undefined"},
   requestBody : {"undefined"}, responseBody : {"undefined"}, userId : {"undefined"},
   event : {"undefined", "empty", "v"}, entity : {"undefined"},
   entityId : {"undefined", "v"}, metadata : {"undefined"},
   actor : Actors, request : Requests, response : Responses]

\* A request body that is no object at all (a JSON string): every key reads
\* undefined.
StringPayload ==
  [kind |-> "string",
   apiUrl |-> "undefined", headers |-> "undefined", requestBody |-> "undefined",
   responseBody |-> "undefined", userId |-> "undefined",
   event |-> "undefined", entity |-> "undefined", entityId |-> "undefined",
   metadata |-> "undefined",
   actor |-> UndefActor, request |-> UndefRequest, response |-> UndefResponse]

Payloads == LegacyPayloads \cup StructuredPayloads \cup {StringPayload}

\* typeof payload === 'object' && (payload.event || payload.entity || ...)
isStructured(p) ==
  /\ p.kind = "object"
  /\ \/ Truthy(p.event)
     \/ Truthy(p.entity)
     \/ TruthyTag(p.request)
     \/ TruthyTag(p.response)
     \/ Truthy(p.metadata)
     \/ TruthyTag(p.actor)

\* payload.request?.path and the like: a sub-field of a nested value.
Sub(x, f) == IF x.tag = "obj" THEN x[f] ELSE "undefined"

\* The doc the handler builds; a key the object literal does not have reads
\* "undefined".
BuildDoc(p) ==
  IF isStructured(p)
    THEN [ts |-> "date",
          event |-> OrNull(p.event),
          entity |-> OrNull(p.entity),
          entityId |-> OrNull(p.entityId),
          actor |-> IF TruthyTag(p.actor) THEN p.actor ELSE NullActor,
          request |-> IF TruthyTag(p.request) THEN p.request ELSE NullRequest,
          response |-> IF TruthyTag(p.response) THEN p.response ELSE NullResponse,
          metadata |-> OrNull(p.metadata),
          apiUrl |-> OrNull(Sub(p.request, "path")),
          headers |-> OrNull(Sub(p.request, "headers")),
          requestBody |-> OrNull(Sub(p.request, "body")),
          responseBody |-> OrNull(Sub(p.response, "body")),
          userId |-> OrNull(Sub(p.actor, "id"))]
    ELSE [ts |-> "date",
          event |-> "undefined", entity |-> "undefined", entityId |-> "undefined",
          actor |-> UndefActor, request |-> UndefRequest, response |-> UndefResponse,
          metadata |-> "undefined",
          apiUrl |-> OrNull(p.apiUrl),
          headers |-> OrNull(p.headers),
          requestBody |-> OrNull(p.requestBody),
          responseBody |-> OrNull(p.responseBody),
          userId |-> OrNull(p.userId)]

\* The thirteen parameters of the postgres insert.
PgParams(d) ==
  [ts |-> d.ts, apiUrl |-> d.apiUrl, headers |-> d.headers,
   requestBody |-> d.requestBody, responseBody |-> d.responseBody, userId |-> d.userId,
   event |-> OrNull(d.event), entity |-> OrNull(d.entity), entityId |-> OrNull(d.entityId),
   actor |-> IF TruthyTag(d.actor) THEN d.actor ELSE NullActor,
   request |-> IF TruthyTag(d.request) THEN d.request ELSE NullRequest,
   response |-> IF TruthyTag(d.response) THEN d.response ELSE NullResponse,
   metadata |-> OrNull(d.metadata)]

\* What insertLog hands to the backend: the doc itself to insertOne, the
\* parameter list to the postgres query.
Handed(d, drv) == IF IsMongoDriver(drv) THEN d ELSE PgParams(d)

\* A request arrives at the listening service: initDb has completed.
InitRecord ==
  /\ BackupIdle
  /\ envDriver \in DriverSettings
  /\ driver = ToLowerCase(DriverOrDefault(envDriver))
  /\ ready = TRUE
  /\ mongoClient = IF IsMongoDriver(driver) THEN 1 ELSE 0
  /\ pgPool = IF IsMongoDriver(driver) THEN 0 ELSE 1
  /\ calls = [c \in CallIds |-> NoCall]
  /\ nextCall = 1
  /\ startPc = "listening"
  /\ written = 0
  /\ recPc = "received"
  /\ payload \in Payloads
  /\ doc = "none"
  /\ stored = "none"

\* The handler classifies request.body and builds doc.
buildDoc ==
  /\ recPc = "received"
  /\ doc' = BuildDoc(payload)
  /\ recPc' = "built"
  /\ UNCHANGED <<payload, stored>>
  /\ UNCHANGED nonRecordVars

\* insertLog(doc) with the backend initialised: the write is issued.
handDoc ==
  /\ recPc = "built"
  /\ stored' = Handed(doc, driver)
  /\ recPc' = "stored"
  /\ UNCHANGED <<payload, doc>>
  /\ UNCHANGED nonRecordVars

NextRecord ==
  \/ buildDoc
  \/ handDoc

SpecRecord == InitRecord /\ [][NextRecord]_vars

(* ----------------------- claims on SpecRecord ------------------------- *)
LegacyFields == {"apiUrl", "headers", "requestBody", "responseBody", "userId"}

\* The value the claim expects stored for an input value: the value itself,
\* null only for an absent key.
AsGiven(x) == IF x = "undefined" THEN "null" ELSE x

\* C10 (as claimed): for a legacy-shaped input the record handed to storage
\* carries each of the five legacy fields with exactly the value given (null
\* only when the field is absent), plus a non-null timestamp.
C10_LegacyStoredAsGiven ==
  (recPc = "stored" /\ ~isStructured(payload)) =>
    /\ \A f \in LegacyFields : stored[f] = AsGiven(payload[f])
    /\ stored.ts \notin {"undefined", "null"}

ScalarFields ==
  LegacyFields \cup {"ts", "event", "entity", "entityId", "metadata"}

NestedFields == {"actor", "request", "response"}

\* C11 (as claimed): every record handed to storage, for both shapes and on
\* both backends, has all thirteen fields present; a field absent from the
\* input is an explicit null, never an omitted key.
C11_CompleteFieldSet ==
  recPc = "stored" =>
    /\ \A f \in ScalarFields : stored[f] # "undefined"
    /\ \A f \in NestedFields : stored[f].tag # "undefined"

\* C12 (as claimed): for a structured input the five compatibility fields of
\* the stored record equal request.path, request.headers, request.body,
\* response.body and actor.id when the sub-field is present, and are null
\* exactly when it is absent.
C12_DerivedEqualSubFields ==
  (recPc = "stored" /\ isStructured(payload)) =>
    /\ stored.apiUrl = AsGiven(Sub(payload.request, "path"))
    /\ stored.headers = AsGiven(Sub(payload.request, "headers"))
    /\ stored.requestBody = AsGiven(Sub(payload.request, "body"))
    /\ stored.responseBody = AsGiven(Sub(payload.response, "body"))
    /\ stored.userId = AsGiven(Sub(payload.actor, "id"))

(* --------------------------- backup module --------------------------- *)
\* Values of BACKUP_ENABLED the model draws from; "" stands for unset.
EnabledSettings == {"", "true", "TRUE", "false"}

\* A faulty check: any non-empty BACKUP_ENABLED counts as enabled.
IsEnabledAnyValue(s) == s # ""

\* process.env.BACKUP_ENABLED && /^true$/i.test(process.env.BACKUP_ENABLED)
IsEnabled(s) == s \in {"true", "TRUE"}

\* driver.startsWith('mongo') on the lower-cased DB_DRIVER values.
StartsWithMongo(d) == d \in {"mongo", "mongodb", "mongo-atlas"}

\* The dump runBackup selects.
BackupKind(env) ==
  IF StartsWithMongo(ToLowerCase(DriverOrDefault(env))) THEN "mongo" ELSE "postgres"

\* How the shell command given to exec can end.
\*   ok            the export utility and the rest of the command succeed
\*   exportFail    the export utility (pg_dump / mongodump) exits non-zero
\*   redirectFail  postgres only: the shell cannot open `> outFile`
DumpOutcomes(kind) ==
  IF kind = "postgres" THEN {"ok", "exportFail", "redirectFail"}
  ELSE {"ok", "exportFail"}

\* Whether `await exec(cmd)` rejects.  exec rejects on a non-zero exit status
\* of the shell; for `pg_dump ... | gzip > outFile` that status is gzip's, the
\* last command of the pipeline, whatever pg_dump's own status is.
ExecRejects(kind, o) ==
  IF kind = "postgres" THEN o = "redirectFail" ELSE o # "ok"

\* Whether the command leaves an artifact file.  The postgres redirect
\* creates outFile before the pipeline runs and gzip writes it even for an
\* empty input; a failed mongodump is taken to leave no archive.
ArtifactWritten(kind, o) ==
  IF kind = "postgres" THEN o \in {"ok", "exportFail"} ELSE o = "ok"

\* files.sort((a,b) => b.t - a.t): newest first.
RECURSIVE SortDesc(_)
SortDesc(files) ==
  IF files = {} THEN <<>>
  ELSE LET m == CHOOSE x \in files : \A y \in files : y.t <= x.t
       IN <<m>> \o SortDesc(files \ {m})

\* A faulty slice: it starts one entry early, as slice(n - 1) would.
SliceOneEarly(seq, n) == SubSeq(seq, IF n > 0 THEN n ELSE 1, Len(seq))

\* Array.prototype.slice(n) for n >= 0.
Slice(seq, n) == SubSeq(seq, n + 1, Len(seq))

\* A faulty selection: the newest n entries themselves.
ExcessNewest(files, n) ==
  SubSeq(SortDesc(files), 1, IF n < Cardinality(files) THEN n ELSE Cardinality(files))

\* The entries beyond the newest n.
Excess(files, n) == Slice(SortDesc(files), n)

Ids(seq) == {seq[i].id : i \in 1..Len(seq)}

\* A faulty sweep: the first unlink that throws ends the loop.
pruneLocalAborting(files, n, failing) ==
  LET ex == Excess(files, n)
      bad == {i \in 1..Len(ex) : ex[i].id \in failing}
      gone == {ex[i].id : i \in {j \in 1..Len(ex) : \A b \in bad : j < b}}
  IN {f \in files : f.id \notin gone}

\* pruneLocal once the directory is scanned: unlinkSync on every excess file,
\* each in its own try/catch; `failing` are the files whose unlink throws.
pruneLocal(files, n, failing) ==
  {f \in files : f.id \notin (Ids(Excess(files, n)) \ failing)}

\* A finished run keeps only its final state once a later run starts: the
\* per-run history fields describe a run until then.
Compact(run) ==
  IF run.pc \in {"done", "failed"} THEN [NoRun EXCEPT !.pc = run.pc] ELSE run

\* What the promise returned by runBackup settles with: the disabled path
\* returns nothing, the try block falls off its end, and the catch block logs
\* and falls off its end too; the promise is fulfilled with undefined.
RunResult(run) ==
  IF run.pc \in {"done", "failed"} THEN "undefined" ELSE "pending"

\* Some run is in progress.
Busy == \E q \in RunIds : runs[q].pc \notin {"idle", "done", "failed"}

\* runBackup(): the enable check, ensureDir, and the dump up to `await exec`.
runBackup ==
  LET r == nextRun
      kind == BackupKind(envDriver)
      busy == Busy
      older == [q \in RunIds |-> Compact(runs[q])]
  IN /\ nextRun \in RunIds
     /\ nextRun' = nextRun + 1
     /\ IF ~IsEnabled(envEnabled)
          THEN /\ runs' = [older EXCEPT ![r] =
                             [NoRun EXCEPT !.pc = "done", !.localBefore = local,
                                           !.remoteBefore = remote]]
               /\ UNCHANGED <<dirExists, tmpDirs, hist>>
          ELSE /\ runs' = [older EXCEPT ![r] =
                             [NoRun EXCEPT !.pc = "dump", !.kind = kind,
                                           !.localBefore = local,
                                           !.remoteBefore = remote]]
               /\ dirExists' = TRUE
               /\ tmpDirs' = IF kind = "mongo" THEN tmpDirs \cup {r} ELSE tmpDirs
               /\ hist' = [hist EXCEPT !.overlapped = hist.overlapped \/ busy]
     /\ UNCHANGED <<envEnabled, s3, retention, local, remote, clock>>
     /\ UNCHANGED <<storeVars, recordVars, schedVars>>

\* The tail of a run whose uploadAndRetain returned: pruneLocal(), then
\* 'Backup complete'.  scanOk: readdirSync / statSync do not throw.
AfterPrune(run, scanOk) ==
  [run EXCEPT !.pruned = TRUE, !.pending = <<>>,
              !.pc = IF scanOk THEN "done" ELSE "failed"]

LocalAfterPrune(files, scanOk, failing) ==
  IF scanOk THEN pruneLocal(files, retention, failing) ELSE files

\* pruneLocal() runs in run r, whose record is `run`, on the directory
\* content `files`; h is the history so far.
PruneStep(r, run, files, h) ==
  \E scanOk \in BOOLEAN, failing \in SUBSET Ids(Excess(files, retention)) :
    /\ ~scanOk => failing = {}
    /\ runs' = [runs EXCEPT ![r] =
                  [AfterPrune(run, scanOk) EXCEPT
                     !.excessLocal = IF scanOk THEN Ids(Excess(files, retention)) ELSE {},
                     !.failedLocal = failing,
                     !.delLocal = files \ LocalAfterPrune(files, scanOk, failing)]]
    /\ local' = LocalAfterPrune(files, scanOk, failing)
    /\ hist' = [h EXCEPT !.softErrors = h.softErrors \/ ~scanOk \/ failing # {}]

\* `await exec(cmd)` of run r settles with outcome o; on success the run goes
\* on into uploadAndRetain (readOk: readFileSync does not throw) and, when no
\* upload is configured, straight through pruneLocal.
dumpSettle(r, o, readOk) ==
  LET run == runs[r]
      file == [id |-> r, t |-> clock]
      local1 == local \cup {file}
      run1 == [run EXCEPT !.dump = o, !.uploadCalled = TRUE]
      hist1 == [hist EXCEPT !.dumpTrouble = hist.dumpTrouble \/ o # "ok"]
  IN /\ run.pc = "dump"
     /\ o \in DumpOutcomes(run.kind)
     /\ IF ExecRejects(run.kind, o)
          THEN /\ readOk
               /\ runs' = [runs EXCEPT ![r] = [run EXCEPT !.dump = o, !.pc = "failed"]]
               /\ local' = IF ArtifactWritten(run.kind, o) THEN local1 ELSE local
               /\ hist' = hist1
               /\ UNCHANGED <<tmpDirs, clock>>
          ELSE /\ tmpDirs' = tmpDirs \ {r}
               /\ clock' = clock + 1
               /\ IF ~s3
                    THEN /\ readOk
                         /\ PruneStep(r, [run1 EXCEPT !.archive = "skipped"], local1, hist1)
                    ELSE /\ runs' = [runs EXCEPT ![r] =
                                       IF readOk
                                         THEN [run1 EXCEPT !.archive = "putting", !.pc = "put"]
                                         ELSE [run1 EXCEPT !.archive = "readFail", !.pc = "failed"]]
                         /\ local' = local1
                         /\ hist' = hist1
     /\ UNCHANGED <<envEnabled, s3, retention, dirExists, remote, nextRun>>
     /\ UNCHANGED <<storeVars, recordVars, schedVars>>

\* The PutObjectCommand of run r settles; on success the listing is requested.
putSettle(r, ok) ==
  LET run == runs[r]
  IN /\ run.pc = "put"
     /\ IF ok
          THEN /\ remote' = remote \cup {[id |-> r, t |-> clock]}
               /\ clock' = clock + 1
               /\ runs' = [runs EXCEPT ![r] = [run EXCEPT !.archive = "put", !.pc = "list"]]
          ELSE /\ runs' = [runs EXCEPT ![r] = [run EXCEPT !.archive = "putFail", !.pc = "failed"]]
               /\ UNCHANGED <<remote, clock>>
     /\ UNCHANGED <<envEnabled, s3, retention, dirExists, local, tmpDirs, nextRun, hist>>
     /\ UNCHANGED <<storeVars, recordVars, schedVars>>

\* The ListObjectsV2Command of run r settles: the excess beyond the newest
\* `retention` objects is queued for deletion; an error is swallowed.
listSettle(r, ok) ==
  LET run == runs[r]
      excess == Excess(remote, retention)
  IN /\ run.pc = "list"
     /\ IF ok /\ excess # <<>>
          THEN /\ runs' = [runs EXCEPT ![r] = [run EXCEPT !.pending = excess, !.pc = "delete"]]
               /\ UNCHANGED <<local, hist>>
          ELSE PruneStep(r, run, local, [hist EXCEPT !.softErrors = hist.softErrors \/ ~ok])
     /\ UNCHANGED <<envEnabled, s3, retention, dirExists, tmpDirs, remote, clock, nextRun>>
     /\ UNCHANGED <<storeVars, recordVars, schedVars>>

\* The DeleteObjectCommand for the first queued object settles; an error
\* leaves the loop (swallowed by the surrounding try).
deleteSettle(r, ok) ==
  LET run0 == runs[r]
      rest == Tail(run0.pending)
      gone == IF ok THEN {o \in remote : o.id = Head(run0.pending).id} ELSE {}
      run == [run0 EXCEPT !.delRemote = run0.delRemote \cup gone,
                          !.failedRemote = ~ok]
  IN /\ run0.pc = "delete"
     /\ remote' = remote \ gone
     /\ IF ok /\ rest # <<>>
          THEN /\ runs' = [runs EXCEPT ![r] = [run EXCEPT !.pending = rest]]
               /\ UNCHANGED <<local, hist>>
          ELSE PruneStep(r, run, local, [hist EXCEPT !.softErrors = hist.softErrors \/ ~ok])
     /\ UNCHANGED <<envEnabled, s3, retention, dirExists, tmpDirs, clock, nextRun>>
     /\ UNCHANGED <<storeVars, recordVars, schedVars>>

\* Values of BACKUP_RETENTION_DAYS the model draws from.
RetentionSettings == 0..MaxRetention

InitBackup ==
  /\ StoreIdle
  /\ RecordIdle
  /\ envDriver \in DriverSettings
  /\ driver = DriverOrDefault(envDriver)
  /\ envEnabled \in EnabledSettings
  /\ s3 \in BOOLEAN
  /\ retention \in RetentionSettings
  /\ dirExists = FALSE
  /\ local = {}
  /\ tmpDirs = {}
  /\ remote = {}
  /\ clock = 1
  /\ runs = [r \in RunIds |-> NoRun]
  /\ nextRun = 1
  /\ hist = NoHist
  /\ envCron = ""
  /\ sched = NoSched

\* An operator runs backups by hand, one after another: the next
\* runBackup(console) is started once the previous one has returned.
manualRun ==
  /\ ~Busy
  /\ runBackup

NextBackup ==
  \/ manualRun
  \/ \E r \in RunIds, o \in {"ok", "exportFail", "redirectFail"}, readOk \in BOOLEAN :
        dumpSettle(r, o, readOk)
  \/ \E r \in RunIds, ok \in BOOLEAN : putSettle(r, ok)
  \/ \E r \in RunIds, ok \in BOOLEAN : listSettle(r, ok)
  \/ \E r \in RunIds, ok \in BOOLEAN : deleteSettle(r, ok)

SpecBackup == InitBackup /\ [][NextBackup]_vars

(* ------------------- scheduling and a used directory ------------------ *)
\* Values of BACKUP_CRON the model draws from; "" stands for unset.
CronSettings == {"", "not a cron"}

\* process.env.BACKUP_CRON || '0 2 * * *'
CronExprOrDefault(s) == IF s = "" THEN "0 2 * * *" ELSE s

\* cron.validate(cronExpr)
CronValid(e) == e = "0 2 * * *"

\* Whether the identifier `require` is bound where scheduleBackups evaluates
\* it.  The file is an ES module (it has import declarations and an export),
\* and an ES module has no `require`: evaluating it throws a ReferenceError.
RequireDefined == FALSE

\* scheduleBackups(logger), called once.
scheduleBackups ==
  /\ sched.pc = "none"
  /\ sched' =
       IF ~IsEnabled(envEnabled)
         THEN [sched EXCEPT !.pc = "returned"]
       ELSE IF ~RequireDefined
         THEN [sched EXCEPT !.pc = "threw"]
       ELSE IF ~CronValid(CronExprOrDefault(envCron))
         THEN [sched EXCEPT !.pc = "returned", !.logged = TRUE]
       ELSE [sched EXCEPT !.pc = "returned", !.installed = TRUE]
  /\ UNCHANGED envCron
  /\ UNCHANGED <<storeVars, recordVars, backupVars>>

\* An artifact left in the backup directory, and in the bucket, by an
\* earlier process.
Seed == {[id |-> 0, t |-> 0]}

\* The backup module in a service that may have run before: the directory
\* and the bucket are either fresh or hold an earlier artifact.
InitService ==
  /\ StoreIdle
  /\ RecordIdle
  /\ envDriver \in {"", "mongo"}
  /\ driver = DriverOrDefault(envDriver)
  /\ envEnabled \in EnabledSettings
  /\ s3 \in BOOLEAN
  /\ retention \in RetentionSettings
  /\ \E seeded \in BOOLEAN :
        /\ dirExists = seeded
        /\ local = IF seeded THEN Seed ELSE {}
        /\ remote = IF seeded THEN Seed ELSE {}
        /\ hist = [NoHist EXCEPT !.seeded = seeded]
  /\ tmpDirs = {}
  /\ clock = 1
  /\ runs = [r \in RunIds |-> NoRun]
  /\ nextRun = 1
  /\ envCron \in CronSettings
  /\ sched = NoSched

\* runBackup(console) by hand in the service, one run after another.
serviceRun ==
  /\ nextRun <= MaxServiceRuns
  /\ manualRun

NextService ==
  \/ scheduleBackups
  \/ serviceRun
  \/ \E r \in RunIds, o \in {"ok", "exportFail", "redirectFail"}, readOk \in BOOLEAN :
        dumpSettle(r, o, readOk)
  \/ \E r \in RunIds, ok \in BOOLEAN : putSettle(r, ok)
  \/ \E r \in RunIds, ok \in BOOLEAN : listSettle(r, ok)
  \/ \E r \in RunIds, ok \in BOOLEAN : deleteSettle(r, ok)

SpecService == InitService /\ [][NextService]_vars

(* -------------------------- overlapping runs -------------------------- *)
\* Run q has been started and has not returned.
InProgress(q) == runs[q].pc \notin {"idle", "done", "failed"}

\* runBackup keeps no in-progress flag: a caller may invoke it while an
\* earlier run has not returned.  The model follows invocations that
\* overlap with at most one other run.
overlappingRun ==
  /\ nextRun <= MaxServiceRuns
  /\ \A q1, q2 \in RunIds : (InProgress(q1) /\ InProgress(q2)) => q1 = q2
  /\ runBackup

\* Backups enabled with a retention count of at least 1, a fresh directory
\* and bucket.
InitOverlap ==
  /\ StoreIdle
  /\ RecordIdle
  /\ envDriver \in {"", "mongo"}
  /\ driver = DriverOrDefault(envDriver)
  /\ envEnabled = "true"
  /\ s3 \in BOOLEAN
  /\ retention \in 1..MaxRetention
  /\ dirExists = FALSE
  /\ local = {}
  /\ tmpDirs = {}
  /\ remote = {}
  /\ clock = 1
  /\ runs = [r \in RunIds |-> NoRun]
  /\ nextRun = 1
  /\ hist = NoHist
  /\ envCron = ""
  /\ sched = NoSched

NextOverlap ==
  \/ overlappingRun
  \/ \E r \in RunIds, o \in {"ok", "exportFail", "redirectFail"}, readOk \in BOOLEAN :
        dumpSettle(r, o, readOk)
  \/ \E r \in RunIds, ok \in BOOLEAN : putSettle(r, ok)
  \/ \E r \in RunIds, ok \in BOOLEAN : listSettle(r, ok)
  \/ \E r \in RunIds, ok \in BOOLEAN : deleteSettle(r, ok)

SpecOverlap == InitOverlap /\ [][NextOverlap]_vars

(* ----------------------- claims on SpecBackup ------------------------- *)
Finished(r) == runs[r].pc \in {"done", "failed"}

\* Every run started so far has returned, and at least one was started.
AfterRuns == nextRun > 1 /\ ~Busy

\* C3 (as claimed): when the export utility fails, for either kind, the run
\* enters Failed and executes neither uploadAndRetain nor pruneLocal.
C3_FailedDumpStopsRun ==
  \A r \in RunIds :
    runs[r].dump = "exportFail" =>
      /\ runs[r].pc = "failed"
      /\ ~runs[r].uploadCalled
      /\ ~runs[r].pruned

\* C4 (as claimed): a run whose dump succeeded has executed pruneLocal by
\* the time it returns, also when reading or uploading the artifact failed
\* or the upload was skipped.
C4_PruneAfterUploadFailure ==
  \A r \in RunIds :
    (runs[r].dump = "ok" /\ Finished(r)) => runs[r].pruned

\* C5 (as claimed): after any run, Done or Failed, the local directory holds
\* at most `retention` artifacts and so does the remote prefix.  Stated for
\* runs made one after another in which no directory scan, unlink, listing
\* or remote deletion failed, with a retention count of at least 1.
C5_AtMostNAfterRun ==
  (AfterRuns /\ retention >= 1 /\ ~hist.overlapped /\ ~hist.softErrors) =>
    /\ Cardinality(local) <= retention
    /\ Cardinality(remote) <= retention

\* C6 (as claimed): starting from an empty directory, after more than
\* `retention` runs made one after another exactly `retention` artifacts
\* remain locally, those of the latest runs.  Stated for runs whose dump
\* succeeded and in which no directory scan, unlink, listing or remote
\* deletion failed, with a retention count of at least 1.
C6_ExactlyNNewest ==
  (/\ AfterRuns
   /\ IsEnabled(envEnabled)
   /\ retention >= 1
   /\ ~hist.overlapped /\ ~hist.softErrors /\ ~hist.dumpTrouble
   /\ nextRun - 1 > retention) =>
    /\ Cardinality(local) = retention
    /\ {f.id : f \in local} = (nextRun - retention)..(nextRun - 1)

\* C7 (as claimed): a run in which the export utility exits non-zero leaves
\* the local and the remote artifact sets as they were before the run.
C7_FailedDumpLeavesSets ==
  \A r \in RunIds :
    (runs[r].dump = "exportFail" /\ Finished(r)) =>
      /\ local = runs[r].localBefore
      /\ remote = runs[r].remoteBefore

\* C15 (as claimed): the invoker of runBackup can tell a run that ended Failed
\* from one that ended Done by what runBackup returned or raised.
C15_FailedSurfaced ==
  \A r1, r2 \in RunIds :
    (Finished(r1) /\ Finished(r2) /\ runs[r1].pc # runs[r2].pc) =>
      RunResult(runs[r1]) # RunResult(runs[r2])

\* C16 (as claimed): a run whose dump step succeeded ends Done, never Failed,
\* whatever fails while archiving or pruning.
C16_FailedOnlyFromDumping ==
  \A r \in RunIds :
    (runs[r].dump = "ok" /\ Finished(r)) => runs[r].pc = "done"

\* C18 (as claimed): the scratch directory of a mongo dump no longer exists
\* once the export process has exited, whether it succeeded or failed.
C18_ScratchDirRemoved ==
  \A r \in tmpDirs : runs[r].pc = "dump"

\* The n most recent of a set of artifacts.
Newest(files, n) ==
  {f \in files : Cardinality({g \in files : g.t > f.t}) < n}

\* The remote retention step of run r is over.
RemoteSweepOver(r) == runs[r].pc # "delete"

\* C17 (as claimed): in both domains every artifact a sweep deleted is no
\* newer than every artifact the sweep left in place, and none of the
\* `retention` most recent is deleted.
C17_DeletedNoNewerThanRetained ==
  \A r \in RunIds :
    /\ \A f \in runs[r].delLocal : \A g \in local : f.t <= g.t
    /\ RemoteSweepOver(r) =>
          \A f \in runs[r].delRemote : \A g \in remote : f.t <= g.t
    /\ runs[r].delLocal \cap Newest(local \cup runs[r].delLocal, retention) = {}
    /\ runs[r].delRemote \cap Newest(remote \cup runs[r].delRemote, retention) = {}

\* C17 (amended): in both domains a sweep deletes only from the excess: every
\* deleted artifact is older than each of the `retention` most recent ones,
\* none of which is deleted; and when no deletion of the sweep failed, every
\* deleted artifact is no newer than every artifact left in place.
C17_DeletedOnlyFromExcess ==
  \A r \in RunIds :
    LET run == runs[r]
        keptLocal == Newest(local \cup run.delLocal, retention)
        keptRemote == Newest(remote \cup run.delRemote, retention)
    IN /\ run.delLocal \cap keptLocal = {}
       /\ run.delRemote \cap keptRemote = {}
       /\ \A f \in run.delLocal : \A g \in keptLocal : f.t < g.t
       /\ \A f \in run.delRemote : \A g \in keptRemote : f.t < g.t
       /\ run.failedLocal = {} =>
             \A f \in run.delLocal : \A g \in local : f.t <= g.t
       /\ (RemoteSweepOver(r) /\ ~run.failedRemote) =>
             \A f \in run.delRemote : \A g \in remote : f.t <= g.t

\* A run has deleted in both domains, its unlink of one excess file failing
\* while a newer excess file was removed.
C17_Witness ==
  \E r \in RunIds :
    /\ Finished(r)
    /\ retention >= 1
    /\ runs[r].delRemote # {}
    /\ runs[r].failedLocal # {}
    /\ \E f \in runs[r].delLocal, g \in local : g.t < f.t

\* C20: in pruneLocal an unlink that throws does not end the sweep and does
\* not leave pruneLocal: every other excess file is removed, and the run goes
\* on to Done.
C20_UnlinkErrorSkipped ==
  \A r \in RunIds :
    /\ runs[r].failedLocal # {} => runs[r].pc = "done"
    /\ (runs[r].pruned /\ runs[r].pc = "done") =>
          {f.id : f \in local} \cap runs[r].excessLocal = runs[r].failedLocal

\* A sweep in which the unlink of the newest excess file threw and an older
\* excess file was removed all the same.
C20_Witness ==
  \E r \in RunIds :
    /\ runs[r].pc = "done"
    /\ \E f \in runs[r].delLocal, b \in runs[r].failedLocal :
          \E g \in local : g.id = b /\ f.t < g.t

\* C21 (as claimed): for every DB_DRIVER the dump a run selects is that of the
\* backend initDb and insertLog select for the records.
C21_BackupKindMatchesStore ==
  \A r \in RunIds :
    runs[r].kind # "none" =>
      (runs[r].kind = "mongo" <=> IsMongoDriver(ToLowerCase(DriverOrDefault(envDriver))))

(* ----------------------- claims on SpecService ------------------------ *)
\* C13: when BACKUP_ENABLED is not "true" (in any letter case), a runBackup
\* ends Done without any effect: the backup directory is not created, no
\* export is started, nothing is uploaded or deleted remotely, and the local
\* files stay as they were.
C13_DisabledRunNoOp ==
  envEnabled \notin {"true", "TRUE"} =>
    /\ dirExists = hist.seeded
    /\ tmpDirs = {}
    /\ local = IF hist.seeded THEN Seed ELSE {}
    /\ remote = IF hist.seeded THEN Seed ELSE {}
    /\ \A r \in RunIds :
          /\ runs[r].pc \in {"idle", "done"}
          /\ runs[r].dump = "none"
          /\ ~runs[r].uploadCalled
          /\ ~runs[r].pruned
          /\ runs[r].delLocal = {} /\ runs[r].delRemote = {}

\* A disabled run has returned in a directory that holds an earlier artifact.
C13_Witness ==
  /\ envEnabled = "false"
  /\ hist.seeded
  /\ runs[1].pc = "done"
  /\ local = Seed

\* C14 (as claimed): scheduleBackups called with backups enabled and an
\* invalid BACKUP_CRON logs an error, returns normally and installs no
\* schedule, so that the scheduler never triggers a run.
C14_InvalidCronLoggedAndSkipped ==
  (/\ envEnabled \in {"true", "TRUE"}
   /\ ~CronValid(CronExprOrDefault(envCron))
   /\ sched.pc # "none") =>
    /\ sched.pc = "returned"
    /\ sched.logged
    /\ ~sched.installed

(* ----------------------- claims on SpecOverlap ------------------------ *)
\* C23 (as claimed): with a retention count of at least 1, a run that reaches
\* Done has not deleted, in its pruning step, the artifact it created.
C23_OwnArtifactKept ==
  \A r \in RunIds :
    (retention >= 1 /\ runs[r].pc = "done") =>
      \A f \in runs[r].delLocal : f.id # r

\* C23 (amended): with a retention count of at least 1 and no run started
\* while another was in progress, a run that reaches Done has not deleted
\* the artifact it created, and the artifact is in the directory when the
\* run returns.
C23_OwnArtifactKeptSingleFlight ==
  \A r \in RunIds :
    (retention >= 1 /\ ~hist.overlapped /\ runs[r].pc = "done" /\ runs[r].pruned) =>
      /\ \A f \in runs[r].delLocal : f.id # r
      /\ \E f \in local : f.id = r

\* A run made after an earlier one had returned pruned the earlier artifact
\* and kept its own.
C23_Witness ==
  \E r \in RunIds :
    /\ retention >= 1
    /\ ~hist.overlapped
    /\ runs[r].pc = "done"
    /\ runs[r].delLocal # {}
    /\ \E f \in local : f.id = r

====
